---- MODULE Spec2Model ----
(***************************************************************************)
(* Model of the album-art colour pipeline of ResoniteSpotipy               *)
(* (src/spotify_color.py) and of the dashboard locks it meets              *)
(* (src/resonite_ui.py).                                                   *)
(*                                                                         *)
(* The colour functions are computed in exact rational arithmetic over     *)
(* arbitrary-size naturals: the Python code computes them in IEEE doubles, *)
(* whose rounding error (about 1e-16) is far below the smallest non-zero   *)
(* difference between two quantities the code compares on 8-bit channels.  *)
(***************************************************************************)
EXTENDS Integers, Sequences, FiniteSets, TLC

(***************************************************************************)
(* Naturals of any size: little-endian sequences of base-10000 limbs, no   *)
(* leading zero limb, <<>> for zero.  (TLC's own integers are 32 bits.)    *)
(***************************************************************************)
Limb(a, i) == IF i >= 1 /\ i <= Len(a) THEN a[i] ELSE 0

BigTrim(a) ==
    LET nz == {i \in 1..Len(a) : a[i] # 0}
    IN  IF nz = {} THEN <<>>
        ELSE SubSeq(a, 1, CHOOSE i \in nz : \A j \in nz : j <= i)

BigOfInt(n) ==
    BigTrim(<< n % 10000, (n \div 10000) % 10000, n \div 100000000 >>)

BigAdd(a, b) ==
    LET len == (IF Len(a) > Len(b) THEN Len(a) ELSE Len(b)) + 1
        carry[i \in 0..len] ==
            IF i = 0 THEN 0
            ELSE (Limb(a, i) + Limb(b, i) + carry[i - 1]) \div 10000
    IN  BigTrim([i \in 1..len |->
                    (Limb(a, i) + Limb(b, i) + carry[i - 1]) % 10000])

\* a - b for a >= b
BigSub(a, b) ==
    LET borrow[i \in 0..Len(a)] ==
            IF i = 0 THEN 0
            ELSE IF a[i] - Limb(b, i) - borrow[i - 1] < 0 THEN 1 ELSE 0
    IN  BigTrim([i \in 1..Len(a) |->
                    (a[i] - Limb(b, i) - borrow[i - 1]) % 10000])

\* schoolbook product: column sums, then the carries
BigMul(a, b) ==
    LET len == Len(a) + Len(b)
        column(k) ==
            LET part[i \in 0..Len(a)] ==
                    IF i = 0 THEN 0
                    ELSE part[i - 1] + a[i] * Limb(b, k + 1 - i)
            IN  part[Len(a)]
        carry[k \in 0..len] ==
            IF k = 0 THEN 0 ELSE (column(k) + carry[k - 1]) \div 10000
    IN  BigTrim([k \in 1..len |-> (column(k) + carry[k - 1]) % 10000])

\* -1, 0 or 1 as a < b, a = b, a > b
BigCmp(a, b) ==
    IF Len(a) < Len(b) THEN -1
    ELSE IF Len(a) > Len(b) THEN 1
    ELSE LET differ == {i \in 1..Len(a) : a[i] # b[i]}
         IN  IF differ = {} THEN 0
             ELSE LET top == CHOOSE i \in differ : \A j \in differ : j <= i
                  IN  IF a[top] < b[top] THEN -1 ELSE 1

(***************************************************************************)
(* Non-negative rationals [n, d] over those naturals, d > 0.               *)
(***************************************************************************)
Big == Seq(0..9999)
Rat == [n : Big, d : Big]

Q(n, d) == [n |-> BigOfInt(n), d |-> BigOfInt(d)]

\* The operations are functions, so that TLC evaluates their arguments
\* before it applies them.
QCmp[x \in Rat, y \in Rat] == BigCmp(BigMul(x.n, y.d), BigMul(y.n, x.d))
QLt(x, y) == QCmp[x, y] = -1
QLe(x, y) == QCmp[x, y] # 1
QAdd[x \in Rat, y \in Rat] ==
    [n |-> BigAdd(BigMul(x.n, y.d), BigMul(y.n, x.d)), d |-> BigMul(x.d, y.d)]
\* x - y for x >= y
QSub[x \in Rat, y \in Rat] ==
    [n |-> BigSub(BigMul(x.n, y.d), BigMul(y.n, x.d)), d |-> BigMul(x.d, y.d)]
QMul[x \in Rat, y \in Rat] ==
    [n |-> BigMul(x.n, y.n), d |-> BigMul(x.d, y.d)]
QAbsDiff[x \in Rat, y \in Rat] ==
    IF QLt(x, y) THEN QSub[y, x] ELSE QSub[x, y]
QMin[x \in Rat, y \in Rat] == IF QLt(y, x) THEN y ELSE x

Max2(a, b) == IF a > b THEN a ELSE b
Min2(a, b) == IF a < b THEN a ELSE b
(***************************************************************************)
(* The fixed palette, in the dict's iteration order, and the curses colour *)
(* constants (named as in the curses module).                              *)
(***************************************************************************)
CURSES_COLORS ==
    << [name |-> "black",   rgb |-> <<0, 0, 0>>],
       [name |-> "red",     rgb |-> <<220, 30, 30>>],
       [name |-> "green",   rgb |-> <<30, 200, 30>>],
       [name |-> "yellow",  rgb |-> <<230, 220, 30>>],
       [name |-> "blue",    rgb |-> <<30, 30, 220>>],
       [name |-> "magenta", rgb |-> <<210, 30, 210>>],
       [name |-> "cyan",    rgb |-> <<30, 210, 210>>],
       [name |-> "white",   rgb |-> <<220, 220, 220>>] >>

CursesConstants ==
    {"COLOR_BLACK", "COLOR_RED", "COLOR_GREEN", "COLOR_YELLOW",
     "COLOR_BLUE", "COLOR_MAGENTA", "COLOR_CYAN", "COLOR_WHITE"}

\* rgb_to_hsv: colorsys.rgb_to_hsv on the channels divided by 255
rgb_to_hsv(rgb) ==
    LET r == rgb[1]
        g == rgb[2]
        b == rgb[3]
        maxc == Max2(r, Max2(g, b))
        minc == Min2(r, Min2(g, b))
        rangec == maxc - minc
        v == Q(maxc, 255)
    IN  IF minc = maxc
        THEN [h |-> Q(0, 1), s |-> Q(0, 1), v |-> v]
        ELSE LET h6 == IF r = maxc THEN g - b
                       ELSE IF g = maxc THEN 2 * rangec + (b - r)
                       ELSE 4 * rangec + (r - g)
             IN  [h |-> Q(h6 % (6 * rangec), 6 * rangec),
                  s |-> Q(rangec, maxc),
                  v |-> v]

\* the score get_saturated_color gives a candidate it did not skip
SaturationScore(color, pct) ==
    LET hsv == rgb_to_hsv(color)
        brightness_factor ==
            QSub[Q(1, 1), QMul[QAbsDiff[hsv.v, Q(7, 10)], Q(1, 2)]]
    IN  QAdd[QAdd[QMul[QMul[hsv.s, hsv.s], Q(4, 1)], Q(3 * pct, 1000)],
             QMul[brightness_factor, Q(7, 10)]]

\* The (max, min) channel pairs whose saturation is exactly 0.15, resp. 0.1,
\* but whose double (max/255 - min/255) / (max/255) falls just below it.
SatBelow15 == { <<60, 51>>, <<120, 102>>, <<240, 204>> }
SatBelow10 ==
    { <<50, 45>>, <<100, 90>>, <<130, 117>>, <<170, 153>>, <<200, 180>>,
      <<210, 189>>, <<250, 225>> }
MaxMin(rgb) ==
    << Max2(rgb[1], Max2(rgb[2], rgb[3])), Min2(rgb[1], Min2(rgb[2], rgb[3])) >>

\* no candidate counts as too dark
TooDarkNever(color) == FALSE

\* v < 0.15
TooDark(color) == QLt(rgb_to_hsv(color).v, Q(15, 100))
\* s < 0.1 and v > 0.9
NearWhite(color) ==
    LET hsv == rgb_to_hsv(color)
    IN  /\ QLt(hsv.s, Q(1, 10)) \/ MaxMin(color) \in SatBelow10
        /\ QLt(Q(9, 10), hsv.v)
\* s >= min_saturation
Pigmented(color) ==
    QLe(Q(15, 100), rgb_to_hsv(color).s) /\ MaxMin(color) \notin SatBelow15

\* the default taken from the end of the list
get_saturated_color_default_last(colors) ==
    IF colors = <<>> THEN <<255, 255, 255>>
    ELSE LET after[i \in 0..Len(colors)] ==
                 IF i = 0
                 THEN [max_score |-> Q(0, 1), most_saturated |-> colors[Len(colors)][1]]
                 ELSE LET prev == after[i - 1]
                          color == colors[i][1]
                          pct == colors[i][2]
                      IN  IF TooDark(color) \/ NearWhite(color)
                          THEN prev
                          ELSE LET score == SaturationScore(color, pct)
                               IN  IF Pigmented(color)
                                      /\ QLt(prev.max_score, score)
                                   THEN [max_score |-> score,
                                         most_saturated |-> color]
                                   ELSE prev
         IN  after[Len(colors)].most_saturated

\* the default of the empty list used for every list
get_saturated_color_default_white(colors) ==
    IF colors = <<>> THEN <<255, 255, 255>>
    ELSE LET after[i \in 0..Len(colors)] ==
                 IF i = 0
                 THEN [max_score |-> Q(0, 1), most_saturated |-> <<255, 255, 255>>]
                 ELSE LET prev == after[i - 1]
                          color == colors[i][1]
                          pct == colors[i][2]
                      IN  IF TooDark(color) \/ NearWhite(color)
                          THEN prev
                          ELSE LET score == SaturationScore(color, pct)
                               IN  IF Pigmented(color)
                                      /\ QLt(prev.max_score, score)
                                   THEN [max_score |-> score,
                                         most_saturated |-> color]
                                   ELSE prev
         IN  after[Len(colors)].most_saturated

\* get_saturated_color; after[i] is (max_score, most_saturated) once the
\* loop has seen the first i candidates
get_saturated_color(colors) ==
    IF colors = <<>> THEN <<255, 255, 255>>
    ELSE LET after[i \in 0..Len(colors)] ==
                 IF i = 0
                 THEN [max_score |-> Q(0, 1), most_saturated |-> colors[1][1]]
                 ELSE LET prev == after[i - 1]
                          color == colors[i][1]
                          pct == colors[i][2]
                      IN  IF TooDark(color) \/ NearWhite(color)
                          THEN prev
                          ELSE LET score == SaturationScore(color, pct)
                               IN  IF Pigmented(color)
                                      /\ QLt(prev.max_score, score)
                                   THEN [max_score |-> score,
                                         most_saturated |-> color]
                                   ELSE prev
         IN  after[Len(colors)].most_saturated

\* the hue distance taken on a line, not on the circle
h_dist_linear(h1, h2) == QAbsDiff[h1, h2]

\* h_dist = min(abs(h1 - h2), 1 - abs(h1 - h2)), for hues in 0..1
h_dist(h1, h2) ==
    LET dh == QAbsDiff[h1, h2]
    IN  QMin[dh, QSub[Q(1, 1), dh]]

\* the distance with its saturation and value terms forgotten
color_distance_hue_only(color1, color2) ==
    QMul[Q(6, 10), h_dist(rgb_to_hsv(color1).h, rgb_to_hsv(color2).h)]

\* color_distance_hsv: 0.6 of the circular hue distance, 0.3 of the
\* saturation difference, 0.1 of the value difference
color_distance_hsv(color1, color2) ==
    LET hsv1 == rgb_to_hsv(color1)
        hsv2 == rgb_to_hsv(color2)
    IN  QAdd[QAdd[QMul[Q(6, 10), h_dist(hsv1.h, hsv2.h)],
                  QMul[Q(3, 10), QAbsDiff[hsv1.s, hsv2.s]]],
             QMul[Q(1, 10), QAbsDiff[hsv1.v, hsv2.v]]]

\* the chain without its remapping of black
CursesConstantOfUnmapped(color_name) ==
    CASE color_name = "black"   -> "COLOR_BLACK"
      [] color_name = "red"     -> "COLOR_RED"
      [] color_name = "green"   -> "COLOR_GREEN"
      [] color_name = "yellow"  -> "COLOR_YELLOW"
      [] color_name = "blue"    -> "COLOR_BLUE"
      [] color_name = "magenta" -> "COLOR_MAGENTA"
      [] color_name = "cyan"    -> "COLOR_CYAN"
      [] color_name = "white"   -> "COLOR_WHITE"

\* the if/elif chain of rgb_to_curses_color
CursesConstantOf(color_name) ==
    CASE color_name = "black"   -> "COLOR_WHITE"
      [] color_name = "red"     -> "COLOR_RED"
      [] color_name = "green"   -> "COLOR_GREEN"
      [] color_name = "yellow"  -> "COLOR_YELLOW"
      [] color_name = "blue"    -> "COLOR_BLUE"
      [] color_name = "magenta" -> "COLOR_MAGENTA"
      [] color_name = "cyan"    -> "COLOR_CYAN"
      [] color_name = "white"   -> "COLOR_WHITE"

\* the loop left after its first entry
rgb_to_curses_color_first_entry(rgb) ==
    CursesConstantOf(CURSES_COLORS[1].name)

\* The colours at exactly the same distance from blue and from white whose
\* double distance to white is the smaller of the two; on every other
\* colour the doubles compare as the exact distances do.
WhiteBelowBlue == { <<19 * k, 18 * k, 22 * k>> : k \in 6..11 }

\* distance < min_distance, on the doubles, at palette entry i
DistanceLess(rgb, i, distance, min_distance) ==
    \/ QLt(distance, min_distance)
    \/ rgb \in WhiteBelowBlue /\ CURSES_COLORS[i].name = "white"

\* rgb_to_curses_color; after[i] is (min_distance, closest_color) once the
\* loop has seen the first i palette entries, has_min being FALSE while
\* min_distance is still float('inf')
rgb_to_curses_color(rgb) ==
    LET after[i \in 0..Len(CURSES_COLORS)] ==
            IF i = 0
            THEN [has_min |-> FALSE, min_distance |-> Q(0, 1),
                  closest_color |-> "COLOR_WHITE"]
            ELSE LET prev == after[i - 1]
                     distance ==
                         color_distance_hsv(rgb, CURSES_COLORS[i].rgb)
                 IN  IF \/ ~prev.has_min
                        \/ DistanceLess(rgb, i, distance, prev.min_distance)
                     THEN [has_min |-> TRUE, min_distance |-> distance,
                           closest_color |->
                               CursesConstantOf(CURSES_COLORS[i].name)]
                     ELSE prev
    IN  after[Len(CURSES_COLORS)].closest_color

(***************************************************************************)
(* Python values that meet in COLOR_CACHE, CURRENT_COLOR and the return    *)
(* values: a curses colour constant (int), an RGB tuple, a hex string,     *)
(* bytes, None.  One record shape, so that any two can be compared.        *)
(***************************************************************************)
PyInt(c)     == [type |-> "int",      name |-> c,  items |-> <<>>]
PyTuple(rgb) == [type |-> "tuple",    name |-> "", items |-> rgb]
PyStr(chars) == [type |-> "str",      name |-> "", items |-> chars]
PyBytes(b)   == [type |-> "bytes",    name |-> b,  items |-> <<>>]
None         == [type |-> "NoneType", name |-> "", items |-> <<>>]
\* no entry under a key of the dict
Absent       == [type |-> "absent",   name |-> "", items |-> <<>>]

\* Python truthiness of what fetch_album_art returns
Falsy(x) == x = None \/ x = PyBytes("")

HexDigits ==
    << "0", "1", "2", "3", "4", "5", "6", "7",
       "8", "9", "a", "b", "c", "d", "e", "f" >>

\* "#{:02x}{:02x}{:02x}".format(r, g, b)
HexFormat(rgb) ==
    PyStr(<< "#",
             HexDigits[(rgb[1] \div 16) + 1], HexDigits[(rgb[1] % 16) + 1],
             HexDigits[(rgb[2] \div 16) + 1], HexDigits[(rgb[2] % 16) + 1],
             HexDigits[(rgb[3] \div 16) + 1], HexDigits[(rgb[3] % 16) + 1] >>)

(***************************************************************************)
(* Bounds of the model.                                                    *)
(***************************************************************************)
NumUrls == 2        \* distinct album-art URLs
MaxRuns == 2        \* background runs started by update_border_color
MaxCalls == 2       \* get_dominant_color calls of the websocket handler
MaxKeys == 1        \* keys handled by the main thread

URLs == 1..NumUrls
Runs == 1..MaxRuns

(***************************************************************************)
(* The network and the images behind it.                                   *)
(***************************************************************************)
\* bodies a server can send: nothing, bytes PIL cannot decode (a truncated
\* download, an error page), a cover.  A response has status 200, another
\* 2xx status (203, a proxy's copy) or an error status.
ImageBytes == {"", "corrupt", "red_art"}

NetOutcomes ==
    {[kind |-> "response", status |-> 200, body |-> b] : b \in ImageBytes}
    \cup {[kind |-> "response", status |-> 203, body |-> "red_art"],
          [kind |-> "response", status |-> 500, body |-> "corrupt"],
          [kind |-> "timeout", status |-> 0, body |-> ""],
          [kind |-> "error", status |-> 0, body |-> ""]}

\* the body of any response, the status not looked at
fetch_album_art_any_status(net) ==
    IF net.kind = "response" THEN PyBytes(net.body) ELSE None

\* fetch_album_art on what requests.get does: the body of a 200 response,
\* None for another status and for an exception
fetch_album_art(net) ==
    IF net.kind = "response"
    THEN IF net.status = 200 THEN PyBytes(net.body) ELSE None
    ELSE None

\* the fallback of get_dominant_colors
WhiteFallback == << <<<<255, 255, 255>>, 100>> >>

\* Counter(labels): the labels in the order of their first occurrence, each
\* with the number of pixels that carry it
Counter(labels) ==
    LET keys == { labels[i] : i \in 1..Len(labels) }
        first(l) == CHOOSE i \in 1..Len(labels) :
                        labels[i] = l /\ \A j \in 1..(i - 1) : labels[j] # l
        key(p) == CHOOSE l \in keys :
                      Cardinality({ m \in keys : first(m) < first(l) }) = p - 1
    IN  [p \in 1..Cardinality(keys) |->
            << key(p),
               Cardinality({ i \in 1..Len(labels) : labels[i] = key(p) }) >>]

\* the first n entries of the counter as they stand, unsorted
most_common_unsorted(counts, n) ==
    SubSeq(counts, 1, Min2(n, Len(counts)))

\* counts.most_common(n): the n entries of highest count, highest first,
\* entries of equal count in the order the counter holds them
most_common(counts, n) ==
    LET rank(p) ==
            1 + Cardinality({ q \in 1..Len(counts) :
                                \/ counts[q][2] > counts[p][2]
                                \/ counts[q][2] = counts[p][2] /\ q < p })
        sorted == [r \in 1..Len(counts) |->
                      counts[CHOOSE p \in 1..Len(counts) : rank(p) = r]]
    IN  SubSeq(sorted, 1, Min2(n, Len(counts)))

\* the loop of get_dominant_colors over a K-means fit: the centre (its
\* channels already whole numbers) and the percentage of the pixels of each
\* cluster, most common first
DominantOfFit(centers, labels, n_colors) ==
    LET common == most_common(Counter(labels), n_colors)
    IN  [i \in 1..Len(common) |->
            << centers[common[i][1]],
               Q(common[i][2] * 100, Len(labels)) >>]

\* a percentage that is a whole number, as that number
WholePercent(pct) == CHOOSE p \in 0..100 : QCmp[pct, Q(p, 1)] = 0

\* what KMeans(n_clusters = n_colors).fit gives on the decoded red album
\* art, the image taken as ten pixels: cluster centres and pixel labels
FitOfRedArt(n_colors) ==
    IF n_colors = 8
    THEN [centers |-> << <<250, 250, 250>>, <<219, 0, 0>> >>,
          labels |-> << 2, 2, 2, 1, 2, 2, 2, 2, 2, 2 >>]
    ELSE [centers |-> << <<222, 25, 25>> >>,
          labels |-> << 1, 1, 1, 1, 1, 1, 1, 1, 1, 1 >>]

\* The try block of get_dominant_colors on an image body.  Image.open
\* raises on bytes it cannot decode; KMeans can raise on an image it was
\* given; else the clusters come back most common first (K-means starts from
\* random centres, so a body has a set of possible lists).  raised names the
\* stage that raised, and then there is no list.
ExtractClusters(image_data, n_colors) ==
    IF image_data = "red_art"
    THEN {[raised |-> "none",
           colors |->
               LET fit == FitOfRedArt(n_colors)
                   pairs == DominantOfFit(fit.centers, fit.labels, n_colors)
               IN  [i \in 1..Len(pairs) |->
                       << pairs[i][1], WholePercent(pairs[i][2]) >>]],
          [raised |-> "clustering", colors |-> <<>>]}
    ELSE {[raised |-> "decode", colors |-> <<>>]}

\* the try block without its except clause
get_dominant_colors_unguarded(image_data, n_colors) ==
    ExtractClusters(image_data, n_colors)

\* get_dominant_colors: the list of the try block, or the fallback of the
\* except clause; raised names the stage whose exception it swallowed
get_dominant_colors(image_data, n_colors) ==
    { IF t.raised = "none" THEN t
      ELSE [raised |-> t.raised, colors |-> WhiteFallback] :
        t \in ExtractClusters(image_data, n_colors) }

\* get_color_for_album past the fetch: cluster, score, map
ExtractPalette(body) ==
    { [raised |-> d.raised,
       value |-> rgb_to_curses_color(get_saturated_color(d.colors))] :
        d \in get_dominant_colors(body, 8) }

\* get_dominant_color past the fetch: cluster, score
ExtractVibrant(body) ==
    { [raised |-> d.raised, value |-> get_saturated_color(d.colors)] :
        d \in get_dominant_colors(body, 5) }

\* the two, tabulated per image body
PaletteResults ==
    [corrupt |-> ExtractPalette("corrupt"),
     red_art |-> ExtractPalette("red_art")]

VibrantResults ==
    [corrupt |-> ExtractVibrant("corrupt"),
     red_art |-> ExtractVibrant("red_art")]

\* force_update_from_url past the fetch: cluster with the default n_colors,
\* score, map
ExtractForced(body) ==
    { [raised |-> d.raised,
       value |-> rgb_to_curses_color(get_saturated_color(d.colors))] :
        d \in get_dominant_colors(body, 5) }

ForcedResults ==
    [corrupt |-> ExtractForced("corrupt"),
     red_art |-> ExtractForced("red_art")]

(***************************************************************************)
(* Track states handed to process_current_track.                           *)
(***************************************************************************)
ImageLists ==
    {<<>>} \cup {<<u>> : u \in URLs} \cup {<<u, w>> : u \in URLs, w \in URLs}

TrackStates ==
    {[data |-> FALSE, item |-> FALSE, album |-> FALSE, images |-> <<>>],
     [data |-> TRUE, item |-> FALSE, album |-> FALSE, images |-> <<>>],
     [data |-> TRUE, item |-> TRUE, album |-> FALSE, images |-> <<>>]}
    \cup {[data |-> TRUE, item |-> TRUE, album |-> TRUE, images |-> i] :
            i \in ImageLists}

\* a URL is made up where the track state has none
album_url_of_or_default(track_data) ==
    IF ~track_data.data \/ ~track_data.item \/ ~track_data.album
       \/ track_data.images = <<>>
    THEN 1
    ELSE IF Len(track_data.images) > 1
         THEN track_data.images[2]
         ELSE track_data.images[1]

\* the URL process_current_track resolves: the second image when there is
\* one, else the first; 0 stands for "no URL"
album_url_of(track_data) ==
    IF ~track_data.data \/ ~track_data.item \/ ~track_data.album
       \/ track_data.images = <<>>
    THEN 0
    ELSE IF Len(track_data.images) > 1
         THEN track_data.images[2]
         ELSE track_data.images[1]

(***************************************************************************)
(* State.                                                                  *)
(***************************************************************************)
VARIABLES
    COLOR_CACHE,    \* the module's one dict: URL -> cached value, or Absent
    CURRENT_COLOR,  \* the module global
    COLOR_LOCK,     \* threading.Lock of the colour module: Free or holder
    ui_lock,        \* SpotipyUI.lock: Free or holder
    border_pair,    \* foreground colour of curses pair COLOR_BORDER
    stored,         \* per URL: which function stored the entry, and what
                    \* that call returned
    run,            \* the process_color threads
    nruns,          \* threads started so far
    ws,             \* the websocket handler's get_dominant_color call
    ncalls,         \* calls made so far
    ui,             \* position of update_ui_loop
    main,           \* the main thread: curses_main's key loop
    nkeys,          \* keys handled so far
    debug,          \* the DEBUG flag, and whether color_debug.log can be
                    \* written
    call,           \* colour function applied to the inputs below
    in_colors,      \* input of get_saturated_color
    in_rgb,         \* input of rgb_to_curses_color
    in_hues,        \* input of the hue distance: two hues
    in_image,       \* input of get_dominant_colors: a body and n_colors
    in_net,         \* input of fetch_album_art: what requests.get does
    in_labels,      \* input of the ranking of get_dominant_colors: cluster
                    \* centres, the label of each pixel, n_colors
    in_command,     \* input of the websocket dispatcher: a command, and
                    \* what the streaming API does
    returned,       \* what the function applied to one of these returned
    vibrant_color,  \* result of get_saturated_color
    curses_color    \* result of rgb_to_curses_color

pipeline_vars ==
    << COLOR_CACHE, CURRENT_COLOR, COLOR_LOCK, ui_lock, border_pair,
       stored, run, nruns, ws, ncalls, ui >>
main_vars == << main, nkeys, debug >>
color_vars ==
    << call, in_colors, in_rgb, in_hues, in_image, in_net, in_labels,
       in_command, returned, vibrant_color, curses_color >>
vars == << pipeline_vars, main_vars, color_vars >>

Free == [holder |-> "free", id |-> 0]
HeldByRun(r) == [holder |-> "run", id |-> r]
HeldByRefresh == [holder |-> "refresh", id |-> 0]
HeldByMain == [holder |-> "main", id |-> 0]

NotStored == [by |-> "nobody", ret |-> None]

IdleRun == [pc |-> "idle", url |-> 0, color |-> None, outcome |-> "none"]
\* the main thread in stdscr.getch()
MainIdle == [pc |-> "getch", then |-> "getch", i |-> 0, color |-> "none"]
IdleWs ==
    [pc |-> "idle", url |-> 0, ret |-> None, outcome |-> "none",
     after_failure |-> FALSE]

\* what a call remembers of the fetch it made: "ok", or how it failed
FetchOutcome(net) ==
    IF net.kind = "response"
    THEN IF net.status = 200
         THEN IF net.body = "" THEN "empty" ELSE "ok"
         ELSE "http"
    ELSE net.kind

FetchFailures == {"empty", "http", "timeout", "error"}
ExtractionFailures == FetchFailures \cup {"decode", "clustering"}

\* how a call that fetched ended: the fetch failure, else the stage of
\* get_dominant_colors that raised, else "ok"
CallOutcome(net, raised) ==
    IF FetchOutcome(net) # "ok" THEN FetchOutcome(net)
    ELSE IF raised # "none" THEN raised
    ELSE "ok"

PipelineInit ==
    /\ COLOR_CACHE = [u \in URLs |-> Absent]
    /\ CURRENT_COLOR = None
    /\ COLOR_LOCK = Free
    /\ ui_lock = Free
    /\ border_pair = "COLOR_WHITE"
    /\ stored = [u \in URLs |-> NotStored]
    /\ run = [r \in Runs |-> IdleRun]
    /\ nruns = 0
    /\ ws = IdleWs
    /\ ncalls = 0
    /\ ui = "top"
    /\ main = MainIdle
    /\ nkeys = 0
    /\ debug = [on |-> FALSE, writable |-> TRUE]

ColorIdle ==
    /\ call = "none"
    /\ in_colors = << "no input" >>
    /\ in_rgb = << "no input" >>
    /\ in_hues = <<>>
    /\ in_image = <<>>
    /\ in_net = <<>>
    /\ in_labels = <<>>
    /\ in_command = <<>>
    /\ returned = <<>>
    /\ vibrant_color = <<>>
    /\ curses_color = "none"

Init == PipelineInit /\ ColorIdle

(***************************************************************************)
(* update_ui_loop: a resize now and then, the render under the dashboard   *)
(* lock, then the track handed to process_current_track.                   *)
(***************************************************************************)
\* resize_ui: with self.lock
UiResizeEnter ==
    /\ ui = "top"
    /\ ui_lock = Free
    /\ ui_lock' = HeldByRefresh
    /\ ui' = "resize"
    /\ UNCHANGED << COLOR_CACHE, CURRENT_COLOR, COLOR_LOCK, border_pair,
                    stored, run, nruns, ws, ncalls >>
    /\ UNCHANGED << main_vars, color_vars >>

UiResizeExit ==
    /\ ui = "resize"
    /\ ui_lock' = Free
    /\ ui' = "ready"
    /\ UNCHANGED << COLOR_CACHE, CURRENT_COLOR, COLOR_LOCK, border_pair,
                    stored, run, nruns, ws, ncalls >>
    /\ UNCHANGED << main_vars, color_vars >>

\* with self.lock: render
UiRenderEnter ==
    /\ ui \in {"top", "ready"}
    /\ ui_lock = Free
    /\ ui_lock' = HeldByRefresh
    /\ ui' = "render"
    /\ UNCHANGED << COLOR_CACHE, CURRENT_COLOR, COLOR_LOCK, border_pair,
                    stored, run, nruns, ws, ncalls >>
    /\ UNCHANGED << main_vars, color_vars >>

UiRenderExit ==
    /\ ui = "render"
    /\ ui_lock' = Free
    /\ ui' = "color"
    /\ UNCHANGED << COLOR_CACHE, CURRENT_COLOR, COLOR_LOCK, border_pair,
                    stored, run, nruns, ws, ncalls >>
    /\ UNCHANGED << main_vars, color_vars >>

\* update_border_color without its thread: the fetch is made, and times
\* out, before process_current_track returns
process_current_track_inline(track_data) ==
    /\ ui = "color"
    /\ LET album_url == album_url_of(track_data)
       IN  IF album_url = 0
           THEN UNCHANGED << run, nruns >>
           ELSE /\ nruns < MaxRuns
                /\ nruns' = nruns + 1
                /\ run' = [run EXCEPT ![nruns + 1] =
                              [pc |-> "lock", url |-> album_url,
                               color |-> PyInt("COLOR_WHITE"),
                               outcome |-> "timeout"]]
    /\ ui' = IF album_url_of(track_data) = 0 THEN "no url" ELSE "started"
    /\ UNCHANGED << COLOR_CACHE, CURRENT_COLOR, COLOR_LOCK, ui_lock,
                    border_pair, stored, ws, ncalls >>
    /\ UNCHANGED << main_vars, color_vars >>

\* debug_log with DEBUG set and a log file that cannot be opened: open()
\* raises OSError out of debug_log
LogFails == debug.on /\ ~debug.writable

\* a process_color thread ended by an exception
DeadRun == [IdleRun EXCEPT !.pc = "done", !.outcome = "log raised"]

\* process_current_track and update_border_color: resolve the URL and start
\* a process_color thread for it, or return at once when there is none; the
\* first debug_log, raising, takes the call to the except clause of the
\* refresh loop
process_current_track(track_data) ==
    /\ ui = "color"
    /\ IF LogFails
       THEN /\ ui' = "raised"
            /\ UNCHANGED << run, nruns >>
       ELSE /\ LET album_url == album_url_of(track_data)
               IN  IF album_url = 0
                   THEN UNCHANGED << run, nruns >>
                   ELSE /\ nruns < MaxRuns
                        /\ nruns' = nruns + 1
                        /\ run' = [run EXCEPT ![nruns + 1] =
                                      [IdleRun EXCEPT !.pc = "check",
                                                      !.url = album_url]]
            /\ ui' = IF album_url_of(track_data) = 0 THEN "no url"
                     ELSE "started"
    /\ UNCHANGED << COLOR_CACHE, CURRENT_COLOR, COLOR_LOCK, ui_lock,
                    border_pair, stored, ws, ncalls >>
    /\ UNCHANGED << main_vars, color_vars >>

\* an animation is active, or the playback query raised: no colour work
UiSkipColor ==
    /\ ui = "color"
    /\ ui' = "skipped"
    /\ UNCHANGED << COLOR_CACHE, CURRENT_COLOR, COLOR_LOCK, ui_lock,
                    border_pair, stored, run, nruns, ws, ncalls >>
    /\ UNCHANGED << main_vars, color_vars >>

\* time.sleep(interval), then the next iteration; until then ui tells how
\* the colour part ended: a thread started, no URL resolved, or skipped
UiSleep ==
    /\ ui \in {"started", "no url", "skipped", "raised"}
    /\ ui' = "top"
    /\ UNCHANGED << COLOR_CACHE, CURRENT_COLOR, COLOR_LOCK, ui_lock,
                    border_pair, stored, run, nruns, ws, ncalls >>
    /\ UNCHANGED << main_vars, color_vars >>

(***************************************************************************)
(* process_color: get_color_for_album, then the update under COLOR_LOCK.   *)
(***************************************************************************)
\* a lookup that never finds the entry
CacheHitNever(cache, album_url) == FALSE

\* album_url in COLOR_CACHE
CacheHit(cache, album_url) == cache[album_url] # Absent

\* process_color and get_color_for_album up to the cache check; a
\* debug_log that raises ends the thread
GcaCheck(r) ==
    /\ run[r].pc = "check"
    /\ IF LogFails
       THEN run' = [run EXCEPT ![r] = DeadRun]
       ELSE IF CacheHit(COLOR_CACHE, run[r].url)
            THEN run' = [run EXCEPT ![r].pc = "lock",
                                    ![r].color = COLOR_CACHE[run[r].url],
                                    ![r].outcome = "hit"]
            ELSE run' = [run EXCEPT ![r].pc = "fetch"]
    /\ UNCHANGED << COLOR_CACHE, CURRENT_COLOR, COLOR_LOCK, ui_lock,
                    border_pair, stored, nruns, ws, ncalls, ui >>
    /\ UNCHANGED << main_vars, color_vars >>

\* get_color_for_album from the fetch to its return; every path logs (the
\* failed fetch, the clustering), and a debug_log that raises ends the
\* thread before anything is stored
GcaFetch(r) ==
    /\ run[r].pc = "fetch"
    /\ IF LogFails
       THEN /\ run' = [run EXCEPT ![r] = DeadRun]
            /\ UNCHANGED << COLOR_CACHE, stored >>
       ELSE
       \E net \in NetOutcomes :
        LET image_data == fetch_album_art(net)
        IN  IF Falsy(image_data)
            THEN /\ run' = [run EXCEPT ![r].pc = "lock",
                                       ![r].color = PyInt("COLOR_WHITE"),
                                       ![r].outcome = CallOutcome(net, "none")]
                 /\ UNCHANGED << COLOR_CACHE, stored >>
            ELSE \E x \in PaletteResults[image_data.name] :
                    LET curses_color_ == PyInt(x.value)
                    IN  /\ COLOR_CACHE' =
                              [COLOR_CACHE EXCEPT ![run[r].url] = curses_color_]
                        /\ stored' =
                              [stored EXCEPT ![run[r].url] =
                                  [by |-> "get_color_for_album",
                                   ret |-> curses_color_]]
                        /\ run' = [run EXCEPT
                                     ![r].pc = "lock",
                                     ![r].color = curses_color_,
                                     ![r].outcome = CallOutcome(net, x.raised)]
    /\ UNCHANGED << CURRENT_COLOR, COLOR_LOCK, ui_lock, border_pair, nruns,
                    ws, ncalls, ui >>
    /\ UNCHANGED << main_vars, color_vars >>

\* with COLOR_LOCK:
AcquireColorLock(r) ==
    /\ run[r].pc = "lock"
    /\ COLOR_LOCK = Free
    /\ COLOR_LOCK' = HeldByRun(r)
    /\ run' = [run EXCEPT ![r].pc = "apply"]
    /\ UNCHANGED << COLOR_CACHE, CURRENT_COLOR, ui_lock, border_pair,
                    stored, nruns, ws, ncalls, ui >>
    /\ UNCHANGED << main_vars, color_vars >>

\* the update suppressed once a colour has been applied: the first run wins
ApplyColorFirstWins(r) ==
    /\ run[r].pc = "apply"
    /\ IF CURRENT_COLOR = None
       THEN /\ CURRENT_COLOR' = run[r].color
            /\ IF run[r].color.type = "int"
               THEN /\ border_pair' = run[r].color.name
                    /\ run' = [run EXCEPT ![r].pc = "redraw"]
               ELSE /\ UNCHANGED border_pair
                    /\ run' = [run EXCEPT ![r].pc = "unlock"]
       ELSE /\ UNCHANGED << CURRENT_COLOR, border_pair >>
            /\ run' = [run EXCEPT ![r].pc = "unlock"]
    /\ UNCHANGED << COLOR_CACHE, COLOR_LOCK, ui_lock, stored, nruns, ws,
                    ncalls, ui >>
    /\ UNCHANGED << main_vars, color_vars >>

\* CURRENT_COLOR = curses_color; curses.init_pair(COLOR_BORDER, ...), which
\* raises TypeError on anything but an int, as does the fallback call; the
\* debug_log ahead of the assignment, raising, leaves the with block
ApplyColor(r) ==
    /\ run[r].pc = "apply"
    /\ IF LogFails
       THEN /\ COLOR_LOCK' = Free
            /\ run' = [run EXCEPT ![r] = DeadRun]
            /\ UNCHANGED << CURRENT_COLOR, border_pair >>
       ELSE /\ CURRENT_COLOR' = run[r].color
            /\ IF run[r].color.type = "int"
               THEN /\ border_pair' = run[r].color.name
                    /\ run' = [run EXCEPT ![r].pc = "redraw"]
               ELSE /\ UNCHANGED border_pair
                    /\ run' = [run EXCEPT ![r].pc = "unlock"]
            /\ UNCHANGED COLOR_LOCK
    /\ UNCHANGED << COLOR_CACHE, ui_lock, stored, nruns, ws,
                    ncalls, ui >>
    /\ UNCHANGED << main_vars, color_vars >>

\* ui_instance.redraw_ui(): with self.lock; the debug_log ahead of it,
\* raising in the try block and again in both except clauses, leaves the
\* with COLOR_LOCK block without a redraw
RedrawEnter(r) ==
    /\ run[r].pc = "redraw"
    /\ IF LogFails
       THEN /\ COLOR_LOCK' = Free
            /\ run' = [run EXCEPT ![r] = DeadRun]
            /\ UNCHANGED ui_lock
       ELSE /\ ui_lock = Free
            /\ ui_lock' = HeldByRun(r)
            /\ run' = [run EXCEPT ![r].pc = "drawing"]
            /\ UNCHANGED COLOR_LOCK
    /\ UNCHANGED << COLOR_CACHE, CURRENT_COLOR, border_pair,
                    stored, nruns, ws, ncalls, ui >>
    /\ UNCHANGED << main_vars, color_vars >>

\* the end of redraw_ui; the debug_log after it raises the same way once
\* the redraw is complete
RedrawExit(r) ==
    /\ run[r].pc = "drawing"
    /\ ui_lock' = Free
    /\ IF LogFails
       THEN /\ COLOR_LOCK' = Free
            /\ run' = [run EXCEPT ![r] = DeadRun]
       ELSE /\ run' = [run EXCEPT ![r].pc = "unlock"]
            /\ UNCHANGED COLOR_LOCK
    /\ UNCHANGED << COLOR_CACHE, CURRENT_COLOR, border_pair,
                    stored, nruns, ws, ncalls, ui >>
    /\ UNCHANGED << main_vars, color_vars >>

\* the thread ends with COLOR_LOCK still held
ReleaseColorLockLeaking(r) ==
    /\ run[r].pc = "unlock"
    /\ run' = [run EXCEPT ![r] = [IdleRun EXCEPT !.pc = "done"]]
    /\ UNCHANGED << COLOR_CACHE, CURRENT_COLOR, COLOR_LOCK, ui_lock,
                    border_pair, stored, nruns, ws, ncalls, ui >>
    /\ UNCHANGED << main_vars, color_vars >>

\* the end of the with block, and of the thread
ReleaseColorLock(r) ==
    /\ run[r].pc = "unlock"
    /\ COLOR_LOCK' = Free
    /\ run' = [run EXCEPT ![r] = [IdleRun EXCEPT !.pc = "done"]]
    /\ UNCHANGED << COLOR_CACHE, CURRENT_COLOR, ui_lock, border_pair,
                    stored, nruns, ws, ncalls, ui >>
    /\ UNCHANGED << main_vars, color_vars >>

(***************************************************************************)
(* get_dominant_color, called by the websocket handler.                    *)
(***************************************************************************)
\* the hex conversion outside the try block: the TypeError reaches the
\* caller
HexOrRaise(rgb_color) ==
    IF rgb_color.type = "tuple" THEN HexFormat(rgb_color.items)
    ELSE [type |-> "raised", name |-> "TypeError", items |-> <<>>]

\* the hex conversion of get_dominant_color: subscripting a cached int
\* raises TypeError, which the except clause turns into None
HexOrNone(rgb_color) ==
    IF rgb_color.type = "tuple" THEN HexFormat(rgb_color.items) ELSE None

\* get_dominant_color up to the cache check
GdcCheck(album_url) ==
    /\ ws.pc \in {"idle", "returned"}
    /\ ncalls < MaxCalls
    /\ ncalls' = ncalls + 1
    /\ LET after_failure_ ==
               /\ ws.pc = "returned"
               /\ ws.url = album_url
               /\ ws.outcome \in FetchFailures
       IN  IF CacheHit(COLOR_CACHE, album_url)
           THEN ws' = [pc |-> "returned", url |-> album_url,
                       ret |-> HexOrNone(COLOR_CACHE[album_url]),
                       outcome |-> "hit", after_failure |-> after_failure_]
           ELSE ws' = [pc |-> "fetch", url |-> album_url, ret |-> None,
                       outcome |-> "none", after_failure |-> after_failure_]
    /\ UNCHANGED << COLOR_CACHE, CURRENT_COLOR, COLOR_LOCK, ui_lock,
                    border_pair, stored, run, nruns, ui >>
    /\ UNCHANGED << main_vars, color_vars >>

\* get_dominant_color from the fetch to its return
GdcFetch ==
    /\ ws.pc = "fetch"
    /\ \E net \in NetOutcomes :
        LET image_data == fetch_album_art(net)
        IN  IF Falsy(image_data)
            THEN /\ ws' = [ws EXCEPT !.pc = "returned", !.ret = None,
                                     !.outcome = CallOutcome(net, "none")]
                 /\ UNCHANGED << COLOR_CACHE, stored >>
            ELSE \E x \in VibrantResults[image_data.name] :
                    /\ COLOR_CACHE' =
                          [COLOR_CACHE EXCEPT ![ws.url] = PyTuple(x.value)]
                    /\ stored' =
                          [stored EXCEPT ![ws.url] =
                              [by |-> "get_dominant_color",
                               ret |-> HexFormat(x.value)]]
                    /\ ws' = [ws EXCEPT !.pc = "returned",
                                        !.ret = HexFormat(x.value),
                                        !.outcome = CallOutcome(net, x.raised)]
    /\ UNCHANGED << CURRENT_COLOR, COLOR_LOCK, ui_lock, border_pair, run,
                    nruns, ncalls, ui >>
    /\ UNCHANGED << main_vars, color_vars >>

Next ==
    \/ UiResizeEnter
    \/ UiResizeExit
    \/ UiRenderEnter
    \/ UiRenderExit
    \/ \E track_data \in TrackStates : process_current_track(track_data)
    \/ UiSkipColor
    \/ UiSleep
    \/ \E r \in Runs : GcaCheck(r)
    \/ \E r \in Runs : GcaFetch(r)
    \/ \E r \in Runs : AcquireColorLock(r)
    \/ \E r \in Runs : ApplyColor(r)
    \/ \E r \in Runs : RedrawEnter(r)
    \/ \E r \in Runs : RedrawExit(r)
    \/ \E r \in Runs : ReleaseColorLock(r)
    \/ \E album_url \in URLs : GdcCheck(album_url)
    \/ GdcFetch

Spec == Init /\ [][Next]_vars

(***************************************************************************)
(* The main thread: the key loop of curses_main.  Keys 1 to 7 and c set    *)
(* the border pair directly, u runs force_update_from_url, f hands the     *)
(* playback state to process_current_track.                                *)
(***************************************************************************)
\* the colours test_border_colors cycles through
TestColors ==
    << "COLOR_RED", "COLOR_GREEN", "COLOR_YELLOW", "COLOR_BLUE",
       "COLOR_MAGENTA", "COLOR_CYAN", "COLOR_WHITE" >>

\* keys 1 to 7: curses.init_pair(17, colour, -1), then UI.redraw_ui()
KeyBorderColor(c) ==
    /\ main.pc = "getch"
    /\ nkeys < MaxKeys
    /\ nkeys' = nkeys + 1
    /\ border_pair' = c
    /\ main' = [MainIdle EXCEPT !.pc = "redraw"]
    /\ UNCHANGED << COLOR_CACHE, CURRENT_COLOR, COLOR_LOCK, ui_lock, stored,
                    run, nruns, ws, ncalls, ui, debug >>
    /\ UNCHANGED color_vars

\* key c: test_border_colors is entered
KeyTestBorderColors ==
    /\ main.pc = "getch"
    /\ nkeys < MaxKeys
    /\ nkeys' = nkeys + 1
    /\ main' = [MainIdle EXCEPT !.pc = "test", !.i = 1]
    /\ UNCHANGED << pipeline_vars, debug >>
    /\ UNCHANGED color_vars

\* test_border_colors: init_pair with the next colour of the list, and
\* after the list with white, each followed by redraw_ui
TestInitPair ==
    /\ main.pc = "test"
    /\ IF main.i <= Len(TestColors)
       THEN /\ border_pair' = TestColors[main.i]
            /\ main' = [main EXCEPT !.pc = "redraw", !.then = "test",
                                    !.i = main.i + 1]
       ELSE /\ border_pair' = "COLOR_WHITE"
            /\ main' = [MainIdle EXCEPT !.pc = "redraw"]
    /\ UNCHANGED << COLOR_CACHE, CURRENT_COLOR, COLOR_LOCK, ui_lock, stored,
                    run, nruns, ws, ncalls, ui, nkeys, debug >>
    /\ UNCHANGED color_vars

\* redraw_ui on the main thread: with self.lock
MainRedrawEnter ==
    /\ main.pc = "redraw"
    /\ ui_lock = Free
    /\ ui_lock' = HeldByMain
    /\ main' = [main EXCEPT !.pc = "drawing"]
    /\ UNCHANGED << COLOR_CACHE, CURRENT_COLOR, COLOR_LOCK, border_pair,
                    stored, run, nruns, ws, ncalls, ui, nkeys, debug >>
    /\ UNCHANGED color_vars

MainRedrawExit ==
    /\ main.pc = "drawing"
    /\ ui_lock' = Free
    /\ main' = [main EXCEPT !.pc = main.then, !.then = "getch"]
    /\ UNCHANGED << COLOR_CACHE, CURRENT_COLOR, COLOR_LOCK, border_pair,
                    stored, run, nruns, ws, ncalls, ui, nkeys, debug >>
    /\ UNCHANGED color_vars

\* key u: force_update_from_url sets DEBUG and appends to the log (an
\* open() that raises ends the key loop), then fetches and extracts on the
\* main thread
ForceFetch ==
    /\ main.pc = "getch"
    /\ nkeys < MaxKeys
    /\ nkeys' = nkeys + 1
    /\ debug' = [debug EXCEPT !.on = TRUE]
    /\ IF ~debug.writable
       THEN main' = [MainIdle EXCEPT !.pc = "raised"]
       ELSE \E net \in NetOutcomes :
               LET image_data == fetch_album_art(net)
               IN  IF Falsy(image_data)
                   THEN main' = MainIdle
                   ELSE \E x \in ForcedResults[image_data.name] :
                           main' = [MainIdle EXCEPT !.pc = "lock",
                                                    !.color = x.value]
    /\ UNCHANGED pipeline_vars
    /\ UNCHANGED color_vars

\* force_update_from_url: with COLOR_LOCK
ForceAcquire ==
    /\ main.pc = "lock"
    /\ COLOR_LOCK = Free
    /\ COLOR_LOCK' = HeldByMain
    /\ main' = [main EXCEPT !.pc = "apply"]
    /\ UNCHANGED << COLOR_CACHE, CURRENT_COLOR, ui_lock, border_pair,
                    stored, run, nruns, ws, ncalls, ui, nkeys, debug >>
    /\ UNCHANGED color_vars

\* CURRENT_COLOR = curses_color; curses.init_pair(COLOR_BORDER, ...)
ForceApply ==
    /\ main.pc = "apply"
    /\ CURRENT_COLOR' = PyInt(main.color)
    /\ border_pair' = main.color
    /\ main' = [main EXCEPT !.pc = "redraw", !.then = "release"]
    /\ UNCHANGED << COLOR_CACHE, COLOR_LOCK, ui_lock, stored, run, nruns,
                    ws, ncalls, ui, nkeys, debug >>
    /\ UNCHANGED color_vars

\* the end of the with block; the log line written inside it is an open()
\* that, raising in the handler of its own except clause, ends the key loop
ForceRelease ==
    /\ main.pc = "release"
    /\ COLOR_LOCK' = Free
    /\ main' = IF debug.writable THEN MainIdle
               ELSE [MainIdle EXCEPT !.pc = "raised"]
    /\ UNCHANGED << COLOR_CACHE, CURRENT_COLOR, ui_lock, border_pair,
                    stored, run, nruns, ws, ncalls, ui, nkeys, debug >>
    /\ UNCHANGED color_vars

\* key f: the playback state is queried and, when it has an item, handed
\* to process_current_track on the main thread; an exception of that call
\* (a debug_log that raises) is caught and shown in the log pane
KeyProcessTrack(track_data) ==
    /\ main.pc = "getch"
    /\ nkeys < MaxKeys
    /\ nkeys' = nkeys + 1
    /\ LET album_url == album_url_of(track_data)
       IN  IF ~track_data.data \/ ~track_data.item \/ album_url = 0
              \/ LogFails
           THEN UNCHANGED << run, nruns >>
           ELSE /\ nruns < MaxRuns
                /\ nruns' = nruns + 1
                /\ run' = [run EXCEPT ![nruns + 1] =
                              [IdleRun EXCEPT !.pc = "check",
                                              !.url = album_url]]
    /\ UNCHANGED << COLOR_CACHE, CURRENT_COLOR, COLOR_LOCK, ui_lock,
                    border_pair, stored, ws, ncalls, ui, main, debug >>
    /\ UNCHANGED color_vars

\* color_debug.log stops being writable (disk full, permissions)
LogFileFails ==
    /\ debug.writable
    /\ debug' = [debug EXCEPT !.writable = FALSE]
    /\ UNCHANGED << pipeline_vars, main, nkeys >>
    /\ UNCHANGED color_vars

(***************************************************************************)
(* Scheduling.  A started thread keeps running: every step of a            *)
(* process_color thread that stays possible is taken (requests.get has a   *)
(* timeout, so the fetch returns).  A blocking acquire of a lock that is   *)
(* free again and again succeeds: COLOR_LOCK is held for one update at a   *)
(* time, and the refresh loop sleeps between two renders.  The refresh     *)
(* loop leaves each with block it entered.                                 *)
(***************************************************************************)
RunFairness(r) ==
    /\ WF_vars(GcaCheck(r))
    /\ WF_vars(GcaFetch(r))
    /\ SF_vars(AcquireColorLock(r))
    /\ WF_vars(ApplyColor(r))
    /\ SF_vars(RedrawEnter(r))
    /\ WF_vars(RedrawExit(r))
    /\ WF_vars(ReleaseColorLock(r))

RefreshFairness == WF_vars(UiResizeExit) /\ WF_vars(UiRenderExit)

\* the threads that take a lock: the refresh loop and the process_color
\* threads (get_dominant_color takes none)
LockNext ==
    \/ UiResizeEnter
    \/ UiResizeExit
    \/ UiRenderEnter
    \/ UiRenderExit
    \/ \E track_data \in TrackStates : process_current_track(track_data)
    \/ UiSkipColor
    \/ UiSleep
    \/ \E r \in Runs : GcaCheck(r)
    \/ \E r \in Runs : GcaFetch(r)
    \/ \E r \in Runs : AcquireColorLock(r)
    \/ \E r \in Runs : ApplyColor(r)
    \/ \E r \in Runs : RedrawEnter(r)
    \/ \E r \in Runs : RedrawExit(r)
    \/ \E r \in Runs : ReleaseColorLock(r)

FairSpec ==
    /\ Init
    /\ [][LockNext]_vars
    /\ RefreshFairness
    /\ \A r \in Runs : RunFairness(r)

\* the threads that touch the colour state, without the websocket handler
KeyNext ==
    \/ LockNext
    \/ \E i \in 1..Len(TestColors) : KeyBorderColor(TestColors[i])
    \/ KeyTestBorderColors
    \/ TestInitPair
    \/ MainRedrawEnter
    \/ MainRedrawExit
    \/ ForceFetch
    \/ ForceAcquire
    \/ ForceApply
    \/ ForceRelease
    \/ \E track_data \in TrackStates : KeyProcessTrack(track_data)
    \/ LogFileFails

KeySpec == Init /\ [][KeyNext]_vars

(***************************************************************************)
(* The websocket server: one message of a connection, from the dispatcher  *)
(* to the reply.  api_ok tells whether the Spotify calls of the handler    *)
(* succeed; the data strings APIClient builds are named, not spelled out.  *)
(***************************************************************************)
\* display_current_info: payload starts as "", and a match statement with
\* three cases assigns it
display_current_info(received, api_ok) ==
    CASE received = "current_info" ->
             IF api_ok THEN "TRACK DATA\nPLAYBACK STATES"
             ELSE "[ERROR] No current song active"
      [] received = "current_track" ->
             IF api_ok THEN "TRACK DATA"
             ELSE "[ERROR] No current song active"
      [] received = "current_states" ->
             IF api_ok THEN "PLAYBACK STATES"
             ELSE "[ERROR] Error getting playback states"
      [] OTHER -> ""

\* modify_current_track, case "next"
modify_current_track(received, api_ok) ==
    CASE received = "next" ->
             IF api_ok THEN "[NEXT SONG]"
             ELSE "[ERROR] Error going to next song"
      [] OTHER -> ""

\* states: list[str] = ["track", "context", "off"]
states == << "track", "context", "off" >>

\* states.index(repeat), counted from 1
states_index(repeat) == CHOOSE i \in 1..Len(states) : states[i] = repeat

\* the state after "off" taken to be the second of the list
change_skipping_first(repeat) ==
    states[IF repeat # "off" THEN states_index(repeat) + 1 ELSE 2]

\* change = states[(states.index(repeat) + 1) if (repeat != "off") else 0]
change(repeat) ==
    states[IF repeat # "off" THEN states_index(repeat) + 1 ELSE 1]

\* modify_playback_states, case "repeat": the payload, and the repeat state
\* of the playback afterwards
modify_playback_states(received, api_ok, repeat) ==
    CASE received = "repeat" ->
             IF api_ok
             THEN [payload |-> "PLAYBACK STATES", repeat |-> change(repeat)]
             ELSE [payload |-> "[ERROR] Error changing repeat state",
                   repeat |-> repeat]
      [] OTHER -> [payload |-> "", repeat |-> repeat]

\* socket: the if/elif chain over the command name (of each family of
\* commands the ones in Commands), ending in the unknown-command reply
socket(received, api_ok, repeat) ==
    IF received \in {"current_info", "current_song", "current_states"}
    THEN [payload |-> display_current_info(received, api_ok),
          repeat |-> repeat]
    ELSE IF received \in {"next"}
    THEN [payload |-> modify_current_track(received, api_ok),
          repeat |-> repeat]
    ELSE IF received \in {"repeat"}
    THEN modify_playback_states(received, api_ok, repeat)
    ELSE [payload |-> "[ERROR] Unknown command", repeat |-> repeat]

(***************************************************************************)
(* The colour functions on their own: an input is drawn, then the          *)
(* function is applied to it.                                              *)
(***************************************************************************)
NumLevels == 6      \* values a channel takes in the inputs of the mapper
MaxClusters == 3    \* longest cluster list handed to the scorer

Levels == { (255 * k) \div (NumLevels - 1) : k \in 0..(NumLevels - 1) }

\* cluster centres: black, dark, gray, on the 0.15 saturation threshold,
\* near-white, red, a green of red's saturation and value, blue
ClusterColors ==
    { <<0, 0, 0>>, <<20, 10, 10>>, <<128, 128, 128>>, <<60, 51, 51>>,
      <<250, 250, 250>>, <<219, 0, 0>>, <<0, 219, 0>>, <<30, 30, 220>> }

\* percentages of n clusters, most common first: one dominant, or even
PctSplits(n) ==
    { [i \in 1..n |-> IF i = 1 THEN 100 - 10 * (n - 1) ELSE 10],
      [i \in 1..n |-> IF i = 1 THEN 100 - (n - 1) * (100 \div n)
                      ELSE 100 \div n] }

ClusterResults ==
    {<<>>} \cup
    UNION { { [i \in 1..n |-> << c[i], p[i] >>] :
                c \in [1..n -> ClusterColors], p \in PctSplits(n) } :
            n \in 1..MaxClusters }

\* colours at the same distance from two palette entries
TiedColors ==
    { <<190, 180, 220>>, <<190, 165, 220>>, <<132, 75, 75>>,
      <<174, 215, 123>>, <<238, 136, 189>>, <<95, 100, 105>> }

RgbInputs ==
    { <<r, g, b>> : r \in Levels, g \in Levels, b \in Levels }
    \cup { CURSES_COLORS[i].rgb : i \in 1..Len(CURSES_COLORS) }
    \cup ClusterColors
    \cup TiedColors

NoInput == << "no input" >>

MaxPixels == 4      \* pixels of the images handed to the ranking loop
MaxCommands == 3    \* messages of a websocket connection

\* command names a client sends: the routed ones, a case of
\* display_current_info that is not routed, and one no branch knows
Commands ==
    {"current_info", "current_song", "current_states", "current_track",
     "next", "repeat", "volume"}

\* K-means fits: n_colors centres and a label for each pixel
FitCenters == << <<219, 0, 0>>, <<250, 250, 250>>, <<30, 30, 220>> >>
FitInputs ==
    UNION { { [centers |-> SubSeq(FitCenters, 1, n), labels |-> l,
               n_colors |-> n] :
                l \in UNION { [1..len -> 1..n] : len \in 1..MaxPixels } } :
            n \in 2..Len(FitCenters) }

NumHues == 20       \* steps of the hue grid over 0..1

\* pairs of hues: the grid, and the hues 0.05, 0.5 and 0.95
Hues == { Q(k, NumHues) : k \in 0..NumHues }
HuePairs ==
    (Hues \X Hues)
    \cup { << Q(5, 100), Q(95, 100) >>, << Q(5, 100), Q(50, 100) >> }

\* an image body and the n_colors of the two callers
ImageInputs == ImageBytes \X {5, 8}

\* the functions that are given an input
InputKinds ==
    {"colors", "rgb", "hues", "image", "net", "labels", "command"}

ColorInit ==
    /\ PipelineInit
    /\ call = "none"
    /\ \E k \in InputKinds :
          /\ in_colors \in IF k = "colors" THEN ClusterResults ELSE {NoInput}
          /\ in_rgb \in IF k = "rgb" THEN RgbInputs ELSE {NoInput}
          /\ in_hues \in IF k = "hues" THEN HuePairs ELSE {<<>>}
          /\ in_image \in IF k = "image" THEN ImageInputs ELSE {<<>>}
          /\ in_net \in IF k = "net"
                        THEN { << net >> : net \in NetOutcomes }
                        ELSE {<<>>}
          /\ in_labels \in IF k = "labels"
                           THEN { << f >> : f \in FitInputs }
                           ELSE {<<>>}
          /\ in_command \in IF k = "command"
                            THEN { << [repeat_state |-> st] >> :
                                     st \in {"track", "context", "off"} }
                            ELSE {<<>>}
    /\ returned = <<>>
    /\ vibrant_color = <<>>
    /\ curses_color = "none"

\* vibrant_color = get_saturated_color(dominant_colors)
CallGetSaturatedColor ==
    /\ call = "none"
    /\ in_colors # NoInput
    /\ vibrant_color' = get_saturated_color(in_colors)
    /\ call' = "scored"
    /\ UNCHANGED << in_colors, in_rgb, in_hues, in_image, in_net, in_labels,
                    in_command, returned,
                    curses_color >>
    /\ UNCHANGED << pipeline_vars, main_vars >>

\* curses_color = rgb_to_curses_color(vibrant_color), on the scorer's result
CallMapVibrant ==
    /\ call = "scored"
    /\ curses_color' = rgb_to_curses_color(vibrant_color)
    /\ call' = "scored and mapped"
    /\ UNCHANGED << in_colors, in_rgb, in_hues, in_image, in_net, in_labels,
                    in_command, returned,
                    vibrant_color >>
    /\ UNCHANGED << pipeline_vars, main_vars >>

\* rgb_to_curses_color on an RGB colour
CallRgbToCursesColor ==
    /\ call = "none"
    /\ in_rgb # NoInput
    /\ curses_color' = rgb_to_curses_color(in_rgb)
    /\ call' = "mapped"
    /\ UNCHANGED << in_colors, in_rgb, in_hues, in_image, in_net, in_labels,
                    in_command, returned,
                    vibrant_color >>
    /\ UNCHANGED << pipeline_vars, main_vars >>

\* the hue term of color_distance_hsv on two hues
CallHueDistance ==
    /\ call = "none"
    /\ Len(in_hues) = 2
    /\ returned' = h_dist(in_hues[1], in_hues[2])
    /\ call' = "h_dist"
    /\ UNCHANGED << in_colors, in_rgb, in_hues, in_image, in_net, in_labels,
                    in_command,
                    vibrant_color, curses_color >>
    /\ UNCHANGED << pipeline_vars, main_vars >>

\* get_dominant_colors on an image body
CallGetDominantColors ==
    /\ call = "none"
    /\ Len(in_image) = 2
    /\ returned' \in get_dominant_colors(in_image[1], in_image[2])
    /\ call' = "clustered"
    /\ UNCHANGED << in_colors, in_rgb, in_hues, in_image, in_net, in_labels,
                    in_command,
                    vibrant_color, curses_color >>
    /\ UNCHANGED << pipeline_vars, main_vars >>

\* the ranking loop of get_dominant_colors on a K-means fit
CallDominantOfFit ==
    /\ call = "none"
    /\ Len(in_labels) = 1
    /\ returned' = DominantOfFit(in_labels[1].centers, in_labels[1].labels,
                                 in_labels[1].n_colors)
    /\ call' = "ranked"
    /\ UNCHANGED << in_colors, in_rgb, in_hues, in_image, in_net, in_labels,
                    in_command,
                    vibrant_color, curses_color >>
    /\ UNCHANGED << pipeline_vars, main_vars >>

\* the repeat state of the playback after the messages handled so far
RepeatState ==
    IF returned = <<>> THEN in_command[1].repeat_state
    ELSE returned[Len(returned)].repeat

\* socket on the next message of the connection: the reply is sent, and
\* a successful repeat command has set the repeat state
SocketMessage ==
    /\ call \in {"none", "replied"}
    /\ Len(in_command) = 1
    /\ Len(returned) < MaxCommands
    /\ \E received \in Commands, api_ok \in BOOLEAN :
          LET reply == socket(received, api_ok, RepeatState)
          IN  returned' = Append(returned,
                                 [received |-> received, api_ok |-> api_ok,
                                  payload |-> reply.payload,
                                  repeat |-> reply.repeat])
    /\ call' = "replied"
    /\ UNCHANGED << in_colors, in_rgb, in_hues, in_image, in_net, in_labels,
                    in_command,
                    vibrant_color, curses_color >>
    /\ UNCHANGED << pipeline_vars, main_vars >>

\* fetch_album_art on what the request does
CallFetchAlbumArt ==
    /\ call = "none"
    /\ Len(in_net) = 1
    /\ returned' = fetch_album_art(in_net[1])
    /\ call' = "fetched"
    /\ UNCHANGED << in_colors, in_rgb, in_hues, in_image, in_net, in_labels,
                    in_command,
                    vibrant_color, curses_color >>
    /\ UNCHANGED << pipeline_vars, main_vars >>

ColorNext ==
    \/ CallGetSaturatedColor
    \/ CallMapVibrant
    \/ CallRgbToCursesColor
    \/ CallHueDistance
    \/ CallGetDominantColors
    \/ CallDominantOfFit
    \/ SocketMessage
    \/ CallFetchAlbumArt

ColorSpec == ColorInit /\ [][ColorNext]_vars


(***************************************************************************)
(* The claims.                                                             *)
(***************************************************************************)
\* a step in which the websocket handler's call is answered from the cache
GdcHitStep == ncalls' = ncalls + 1 /\ ws'.outcome = "hit"
\* a step in which run r's get_color_for_album is answered from the cache
GcaHitStep(r) == run[r].pc = "check" /\ run'[r].outcome = "hit"
\* a step in which a call returns from the fetch it made
GdcFetchStep == ws.pc = "fetch" /\ ws'.pc = "returned"
GcaFetchStep(r) == run[r].pc = "fetch" /\ run'[r].pc = "lock"

\* C1: the two caches are independent: get_dominant_color never reads an
\* entry that get_color_for_album stored, and get_color_for_album never
\* reads an entry that get_dominant_color stored.
C1_CachesIndependent ==
    [][ /\ GdcHitStep => stored[ws'.url].by = "get_dominant_color"
        /\ \A r \in Runs :
              GcaHitStep(r) => stored[run[r].url].by = "get_color_for_album"
      ]_vars

\* get_dominant_color has read the curses constant get_color_for_album
\* stored, and returned None
C1_ReadsOtherFunctionsEntry ==
    /\ ws.outcome = "hit"
    /\ COLOR_CACHE[ws.url].type = "int"
    /\ stored[ws.url].by = "get_color_for_album"
    /\ ws.ret = None

\* C2: what a background run writes to CURRENT_COLOR, and passes to
\* curses.init_pair, is a curses colour constant of the palette, never an
\* RGB value.
C2_BorderColourIsPaletteConstant ==
    CURRENT_COLOR # None =>
        /\ CURRENT_COLOR.type = "int"
        /\ CURRENT_COLOR.name \in CursesConstants

\* a run has written the RGB tuple that get_dominant_color cached
C2_RgbTupleWritten ==
    /\ CURRENT_COLOR.type = "tuple"
    /\ \E u \in URLs : CURRENT_COLOR = COLOR_CACHE[u]
                       /\ stored[u].by = "get_dominant_color"

\* C4: a lookup of a URL whose entry an earlier call of the same function
\* stored is answered from the cache: it fetches nothing, leaves the cache
\* as it is and returns what that earlier call returned.
C4_SecondLookupIsCacheHit ==
    [][ /\ \A u \in URLs :
              ( /\ ncalls' = ncalls + 1
                /\ ws'.url = u
                /\ stored[u].by = "get_dominant_color" )
              => ( /\ ws'.pc = "returned"
                   /\ ws'.ret = stored[u].ret
                   /\ COLOR_CACHE' = COLOR_CACHE )
        /\ \A r \in Runs :
              ( /\ run[r].pc = "check"
                /\ run'[r].pc # "check"
                /\ stored[run[r].url].by = "get_color_for_album" )
              => ( /\ run'[r].pc = "lock"
                   /\ run'[r].color = stored[run[r].url].ret
                   /\ COLOR_CACHE' = COLOR_CACHE )
      ]_vars

\* both functions have answered a second lookup from their own entry
C4_BothAnsweredFromCache ==
    /\ ws.outcome = "hit"
    /\ stored[ws.url].by = "get_dominant_color"
    /\ ws.ret = stored[ws.url].ret
    /\ ws.ret.type = "str"
    /\ \E r \in Runs :
          /\ run[r].pc = "lock"
          /\ run[r].outcome = "hit"
          /\ stored[run[r].url].by = "get_color_for_album"
          /\ run[r].color = stored[run[r].url].ret

\* C5: when the fetch times out, raises or answers HTTP 500,
\* get_dominant_color returns None and stores nothing; and the next call
\* for that URL, finding no entry, fetches again.
C5_FetchFailureReturnsNoneStoresNothing ==
    [][ /\ ( GdcFetchStep /\ ws'.outcome \in {"timeout", "error", "http"} )
           => ( ws'.ret = None /\ COLOR_CACHE' = COLOR_CACHE )
        /\ ( /\ ncalls' = ncalls + 1
             /\ ws'.after_failure
             /\ COLOR_CACHE[ws'.url] = Absent )
           => ws'.pc = "fetch"
      ]_vars

\* the call after a failed fetch of the same URL is fetching again
C5_RefetchAfterFailure ==
    /\ ws.pc = "fetch"
    /\ ws.after_failure
    /\ COLOR_CACHE[ws.url] = Absent

\* C6: an extraction that fails at any stage (fetch, decode, clustering)
\* creates no cache entry: the call leaves the cache as it found it.
C6_FailedExtractionStoresNothing ==
    [][ /\ ( GdcFetchStep /\ ws'.outcome \in ExtractionFailures )
           => COLOR_CACHE' = COLOR_CACHE
        /\ \A r \in Runs :
              ( GcaFetchStep(r) /\ run'[r].outcome \in ExtractionFailures )
              => COLOR_CACHE' = COLOR_CACHE
      ]_vars

\* a call whose image could not be decoded has left the white fallback in
\* the cache
C6_FallbackCached ==
    /\ ws.pc = "returned"
    /\ ws.outcome = "decode"
    /\ COLOR_CACHE[ws.url] = PyTuple(<<255, 255, 255>>)

\* C7: the background runs and the refresh loop never deadlock: no run
\* waits for COLOR_LOCK while it holds the dashboard lock, a run that has
\* COLOR_LOCK releases it, and every run that was started terminates.
C7_NoDeadlock ==
    /\ [](\A r \in Runs : run[r].pc = "lock" => ui_lock # HeldByRun(r))
    /\ \A r \in Runs :
          (COLOR_LOCK = HeldByRun(r)) ~> (COLOR_LOCK # HeldByRun(r))
    /\ \A r \in Runs : (run[r].pc # "idle") ~> (run[r].pc = "done")

\* two runs for different URLs at once: one holds COLOR_LOCK and waits for
\* the dashboard lock, which the refresh loop holds; the other waits for
\* COLOR_LOCK
C7_RunsContendWithRefresh ==
    \E r, q \in Runs :
        /\ run[r].url # run[q].url
        /\ COLOR_LOCK = HeldByRun(r)
        /\ run[r].pc = "redraw"
        /\ ui_lock = HeldByRefresh
        /\ run[q].pc = "lock"

(***************************************************************************)
(* Claims about the colour functions, under ColorSpec.                     *)
(***************************************************************************)
\* the HSV value of a colour is below 0.15
ValueBelow15(color) == QLt(rgb_to_hsv(color).v, Q(15, 100))

\* a candidate that get_saturated_color can select: it is not skipped and
\* its saturation reaches 0.15
Selectable(color) ==
    ~TooDark(color) /\ ~NearWhite(color) /\ Pigmented(color)

\* the curses constant named after each palette entry
ConstantNamed ==
    [black |-> "COLOR_BLACK", red |-> "COLOR_RED", green |-> "COLOR_GREEN",
     yellow |-> "COLOR_YELLOW", blue |-> "COLOR_BLUE",
     magenta |-> "COLOR_MAGENTA", cyan |-> "COLOR_CYAN",
     white |-> "COLOR_WHITE"]

\* a red cluster (saturation 1, value 0.86) at 90%, a near-white one at 10%
RedOnWhite == << <<<<219, 0, 0>>, 90>>, <<<<250, 250, 250>>, 10>> >>

\* C3: for every RGB colour, rgb_to_curses_color returns a colour of the
\* 8-entry palette, and never black.
C3_MapperReturnsPaletteNeverBlack ==
    call \in {"mapped", "scored and mapped"} =>
        /\ curses_color \in CursesConstants
        /\ curses_color # "COLOR_BLACK"

\* black itself has been mapped, to white
C3_BlackMappedToWhite ==
    /\ call = "mapped"
    /\ in_rgb = <<0, 0, 0>>
    /\ curses_color = "COLOR_WHITE"

C9_ReferencesMapToThemselves ==
    \A i \in 1..Len(CURSES_COLORS) :
        (call = "mapped" /\ in_rgb = CURSES_COLORS[i].rgb) =>
            curses_color = IF CURSES_COLORS[i].name = "black"
                           THEN "COLOR_WHITE"
                           ELSE ConstantNamed[CURSES_COLORS[i].name]

\* the reference of cyan has been mapped, to cyan
C9_CyanMappedToCyan ==
    /\ call = "mapped"
    /\ in_rgb = <<30, 210, 210>>
    /\ curses_color = "COLOR_CYAN"

\* C10: given the red cluster at 90% and the near-white one at 10%,
\* get_saturated_color returns the red cluster's colour and
\* rgb_to_curses_color maps it to red.
C10_RedOnWhiteGivesRed ==
    in_colors = RedOnWhite =>
        /\ call \in {"scored", "scored and mapped"} =>
              vibrant_color = <<219, 0, 0>>
        /\ call = "scored and mapped" => curses_color = "COLOR_RED"

\* the red-on-white input has been scored and mapped
C10_RedOnWhiteMapped ==
    /\ in_colors = RedOnWhite
    /\ call = "scored and mapped"
    /\ vibrant_color = <<219, 0, 0>>
    /\ curses_color = "COLOR_RED"

(***************************************************************************)
(* Claims about the hue distance, the clustering and the fetch, under       *)
(* ColorSpec.                                                              *)
(***************************************************************************)
\* C11: the hue term of color_distance_hsv is the circular distance
\* min(|h1 - h2|, 1 - |h1 - h2|): for all hues in 0..1 it is symmetric and at
\* most 0.5, and the distance between the hues 0.05 and 0.95 is smaller than
\* the distance between the hues 0.05 and 0.5.
C11_HueDistanceCircular ==
    call = "h_dist" =>
        LET dh == QAbsDiff[in_hues[1], in_hues[2]]
        IN  /\ QCmp[returned, QMin[dh, QSub[Q(1, 1), dh]]] = 0
            /\ QCmp[returned, h_dist(in_hues[2], in_hues[1])] = 0
            /\ QLe(returned, Q(1, 2))
            /\ in_hues = << Q(5, 100), Q(95, 100) >> =>
                  QLt(returned, h_dist(Q(5, 100), Q(50, 100)))

\* the distance between the hues 0.05 and 0.95 has been computed: 0.1, across
\* the wraparound
C11_WraparoundDistance ==
    /\ call = "h_dist"
    /\ in_hues = << Q(5, 100), Q(95, 100) >>
    /\ QCmp[returned, Q(1, 10)] = 0

C13_Every2xxReturnsBody ==
    call = "fetched" =>
        LET net == in_net[1]
        IN  IF net.kind = "response" /\ net.status \in 200..299
            THEN returned = PyBytes(net.body)
            ELSE returned = None

\* a 203 response carrying a cover has been answered with None
C13_Body203Dropped ==
    /\ call = "fetched"
    /\ in_net[1].kind = "response"
    /\ in_net[1].status = 203
    /\ in_net[1].body = "red_art"
    /\ returned = None

(***************************************************************************)
(* Claims about the calls and the threads of the pipeline.                  *)
(***************************************************************************)
\* a string '#rrggbb': a '#' and six hexadecimal digits, two per channel
IsHexColour(x) ==
    /\ x.type = "str"
    /\ Len(x.items) = 7
    /\ x.items[1] = "#"
    /\ \A i \in 2..7 : \E k \in 1..16 : x.items[i] = HexDigits[k]

NoUrlResolvable(track_data) ==
    \/ ~track_data.data
    \/ ~track_data.item
    \/ ~track_data.album
    \/ track_data.images = <<>>

Extracting(r) == run[r].pc \in {"check", "fetch"}

\* C16: the fetch and the clustering never execute on the refresh thread:
\* process_current_track returns with the run it started still before its
\* cache check, the steps of get_color_for_album are not steps of the
\* refresh loop, and a run that is fetching holds no lock the loop takes.
C16_ExtractionOffRefreshThread ==
    /\ [][ \A track_data \in TrackStates :
               ( ~NoUrlResolvable(track_data)
                 /\ process_current_track(track_data) )
               => ( /\ ui' = "started"
                    /\ nruns' = nruns + 1
                    /\ run'[nruns'].pc = "check"
                    /\ run'[nruns'].outcome = "none"
                    /\ COLOR_CACHE' = COLOR_CACHE
                    /\ stored' = stored )
         ]_vars
    /\ [][ \A r \in Runs :
               (Extracting(r) /\ run'[r] # run[r]) => ui' = ui
         ]_vars
    /\ [](\A r \in Runs :
             Extracting(r) =>
                 (ui_lock # HeldByRun(r) /\ COLOR_LOCK # HeldByRun(r)))

\* the refresh loop is rendering again while the runs its last two
\* iterations started are still in get_color_for_album
C16_RenderingWhileFetching ==
    /\ ui = "render"
    /\ ui_lock = HeldByRefresh
    /\ run[1].pc = "fetch"
    /\ run[2].pc = "check"

\* C17: while it handles a command the websocket handler never itself waits
\* for the album-art fetch or the clustering of a URL that is not cached:
\* its get_dominant_color call is never at the fetch.
C17_HandlerNeverWaitsForFetch == ws.pc # "fetch"

\* the handler's first get_dominant_color call found no entry and is at the
\* fetch; no other command is handled until it returns
C17_HandlerBlockedInFetch ==
    /\ ws.pc = "fetch"
    /\ ncalls = 1
    /\ COLOR_CACHE[ws.url] = Absent
    /\ ~(\E album_url \in URLs : ENABLED GdcCheck(album_url))

\* how a call ends that stored a value: its fetch succeeded
StoringOutcomes == {"ok", "decode", "clustering"}

\* C18: each cache key is written at most once, also when runs (or a run and
\* a get_dominant_color call) for the same URL overlap: a call stores a
\* value only under a URL that has no entry.
C18_KeyWrittenAtMostOnce ==
    [][ /\ \A r \in Runs :
              ( GcaFetchStep(r) /\ run'[r].outcome \in StoringOutcomes )
              => COLOR_CACHE[run[r].url] = Absent
        /\ ( GdcFetchStep /\ ws'.outcome \in StoringOutcomes )
           => COLOR_CACHE[ws.url] = Absent
      ]_vars

\* two runs for the same URL have both fetched and both stored, and not the
\* same value
C18_BothRunsStored ==
    \E r, q \in Runs :
        /\ r # q
        /\ run[r].url = run[q].url
        /\ run[r].pc = "lock" /\ run[r].outcome \in StoringOutcomes
        /\ run[q].pc = "lock" /\ run[q].outcome \in StoringOutcomes
        /\ run[r].color # run[q].color

\* the step of run r that applies its colour
ApplyStep(r) == run[r].pc = "apply" /\ run'[r].pc # "apply"

\* C19: a background run whose fetch returned nothing ends as a no-op: it
\* leaves CURRENT_COLOR and the border colour pair unchanged and requests no
\* redraw; CURRENT_COLOR changes only on a successful extraction.
C19_FailedRunIsNoOp ==
    [][ /\ \A r \in Runs :
              ( ApplyStep(r) /\ run[r].outcome \in FetchFailures )
              => ( /\ CURRENT_COLOR' = CURRENT_COLOR
                   /\ border_pair' = border_pair
                   /\ run'[r].pc # "redraw" )
        /\ CURRENT_COLOR' # CURRENT_COLOR
           => \E r \in Runs :
                 ApplyStep(r) /\ run[r].outcome \notin FetchFailures
      ]_vars

\* a run extracted red for one URL and finished; then the run for the other
\* URL, whose fetch failed, has set CURRENT_COLOR and the border pair to
\* white and is about to redraw
C19_FailedRunRepaintedWhite ==
    \E r, q \in Runs :
        /\ run[r].pc = "redraw"
        /\ run[r].outcome \in FetchFailures
        /\ CURRENT_COLOR = PyInt("COLOR_WHITE")
        /\ border_pair = "COLOR_WHITE"
        /\ run[q].pc = "done"
        /\ \E u \in URLs :
              /\ u # run[r].url
              /\ COLOR_CACHE[u] = PyInt("COLOR_RED")
              /\ stored[u].by = "get_color_for_album"

\* run r has been started and has not reached its apply step
BeforeApply(r) == run[r].pc \in {"check", "fetch", "lock"}

\* C20: when a second update_border_color request arrives while an earlier
\* run is in flight, neither run is cancelled, queued or suppressed: a step
\* of the refresh loop leaves the runs in flight as they are, every run that
\* was started reaches its apply step, and CURRENT_COLOR is always the
\* colour of the run that applied last.
C20_BothApplyLastWins ==
    /\ [][ ui' # ui =>
               \A r \in Runs : run[r].pc # "idle" => run'[r] = run[r]
         ]_vars
    /\ \A r \in Runs : BeforeApply(r) ~> (run[r].pc = "apply")
    /\ [][ /\ \A r \in Runs : ApplyStep(r) => CURRENT_COLOR' = run[r].color
           /\ CURRENT_COLOR' # CURRENT_COLOR => \E r \in Runs : ApplyStep(r)
         ]_vars

\* both runs are in flight with different colours: one has applied its
\* colour and redrawn, the other waits for COLOR_LOCK to apply its own
C20_SecondRunAboutToApply ==
    \E r, q \in Runs :
        /\ run[r].pc = "unlock"
        /\ CURRENT_COLOR = run[r].color
        /\ run[q].pc = "lock"
        /\ run[q].color # run[r].color

\* C21: every background run that obtains a colour overwrites CURRENT_COLOR
\* with it and requests a dashboard redraw, also when the new colour equals
\* the current one.
C21_EveryRunOverwritesAndRedraws ==
    [][ \A r \in Runs :
            ApplyStep(r) =>
                (CURRENT_COLOR' = run[r].color /\ run'[r].pc = "redraw")
      ]_vars

\* a run has written the RGB tuple it found in the cache to CURRENT_COLOR
\* and is leaving the update without a redraw, the border pair still white
C21_TupleAppliedWithoutRedraw ==
    \E r \in Runs :
        /\ run[r].pc = "unlock"
        /\ run[r].outcome = "hit"
        /\ run[r].color.type = "tuple"
        /\ CURRENT_COLOR = run[r].color
        /\ border_pair = "COLOR_WHITE"

(***************************************************************************)
(* The claims about the key loop, the scorer, the mapper, the log file,    *)
(* the clustering and the websocket commands.                              *)
(***************************************************************************)
\* a thread inside a with COLOR_LOCK block that writes CURRENT_COLOR
RunUpdating(r) == run[r].pc \in {"apply", "redraw", "drawing", "unlock"}
MainUpdating ==
    \/ main.pc \in {"apply", "release"}
    \/ main.pc \in {"redraw", "drawing"} /\ main.then = "release"
UpdateInProgress == MainUpdating \/ \E r \in Runs : RunUpdating(r)

\* the border colour pair holds the colour CURRENT_COLOR names (white
\* before the first update)
BorderMatchesCurrent ==
    IF CURRENT_COLOR = None THEN border_pair = "COLOR_WHITE"
    ELSE CURRENT_COLOR.type = "int" /\ border_pair = CURRENT_COLOR.name

\* C22: updates of the current colour are atomic under COLOR_LOCK: at most
\* one thread at a time is between writing CURRENT_COLOR and finishing the
\* border-pair update and redraw, and whenever no update is in progress the
\* border colour pair holds the same colour as CURRENT_COLOR.
C22_PairFollowsCurrentColour ==
    /\ \A r1, r2 \in Runs : RunUpdating(r1) /\ RunUpdating(r2) => r1 = r2
    /\ \A r \in Runs : ~(RunUpdating(r) /\ MainUpdating)
    /\ ~UpdateInProgress => BorderMatchesCurrent

\* a colour key was handled to its end while no thread was updating: the
\* pair holds the key's colour, CURRENT_COLOR does not
C22_KeyRepaintedBorderAlone ==
    /\ nkeys = 1 /\ main = MainIdle
    /\ COLOR_LOCK = Free
    /\ ~UpdateInProgress
    /\ border_pair = "COLOR_RED"
    /\ CURRENT_COLOR = None

\* mutual exclusion alone: the threads that write CURRENT_COLOR do exclude
\* one another
C22_UpdatersExcludeOneAnother ==
    /\ \A r1, r2 \in Runs : RunUpdating(r1) /\ RunUpdating(r2) => r1 = r2
    /\ \A r \in Runs : ~(RunUpdating(r) /\ MainUpdating)
    /\ UpdateInProgress <=> COLOR_LOCK # Free

\* C26: debug logging is best-effort: with debug enabled, a failure to open
\* or write the log file never raises out of debug_log, so a pipeline
\* operation completes with the same result and state changes as when the
\* write succeeds: process_current_track starts a run for every track state
\* with a URL, and a run at its apply step writes its colour to
\* CURRENT_COLOR.
C26_LogFailureChangesNothing ==
    [][ /\ \A track_data \in TrackStates :
              (process_current_track(track_data)
               /\ album_url_of(track_data) # 0)
                  => (nruns' = nruns + 1 /\ ui' = "started")
        /\ \A r \in Runs : ApplyStep(r) => CURRENT_COLOR' = run[r].color
      ]_vars

\* the log file cannot be written, and the only run, which had stored its
\* colour, ended at a debug_log without applying it
C26_RunDiedBeforeApplying ==
    /\ LogFails
    /\ nruns = 1 /\ run[1] = DeadRun
    /\ \E u \in URLs : stored[u].by = "get_color_for_album"
    /\ CURRENT_COLOR = None
    /\ COLOR_LOCK = Free

\* a candidate that survives the rejection rules with saturation >= 0.15,
\* the thresholds taken on the exact saturation and value of the colour
Survivor(color) ==
    LET hsv == rgb_to_hsv(color)
    IN  /\ QLe(Q(15, 100), hsv.v)
        /\ ~(QLt(hsv.s, Q(1, 10)) /\ QLt(Q(9, 10), hsv.v))
        /\ QLe(Q(15, 100), hsv.s)

\* the first candidate of highest score among those that satisfy Among
FirstBest(colors, Among(_)) ==
    LET cand == { i \in 1..Len(colors) : Among(colors[i][1]) }
        score(i) == SaturationScore(colors[i][1], colors[i][2])
    IN  CHOOSE i \in cand :
            /\ \A j \in cand : QLe(score(j), score(i))
            /\ \A j \in cand : j < i => QLt(score(j), score(i))

\* C23: when at least one candidate survives the rejection rules (value >=
\* 0.15, and not both saturation < 0.10 and value > 0.90) with saturation >=
\* 0.15, get_saturated_color returns the survivor with the highest score
\* 4.0*s^2 + 0.3*prevalence + 0.7*(1 - 0.5*|v - 0.7|), and among candidates
\* of equal highest score the one that comes first in the input.
C23_FirstBestSurvivorReturned ==
    (call = "scored"
     /\ \E i \in 1..Len(in_colors) : Survivor(in_colors[i][1]))
        => vibrant_color = in_colors[FirstBest(in_colors, Survivor)][1]

\* the only survivor has saturation 0.15, and the gray ahead of it was
\* returned
C23_ThresholdSurvivorPassedOver ==
    /\ call = "scored"
    /\ in_colors = << <<<<128, 128, 128>>, 90>>, <<<<60, 51, 51>>, 10>> >>
    /\ Survivor(<<60, 51, 51>>) /\ ~Survivor(<<128, 128, 128>>)
    /\ vibrant_color = <<128, 128, 128>>

\* the same statement on the candidates the doubles of the code let pass:
\* the first of highest score among them is returned
C23_FirstBestSelectableReturned ==
    (call = "scored"
     /\ \E i \in 1..Len(in_colors) : Selectable(in_colors[i][1]))
        => vibrant_color = in_colors[FirstBest(in_colors, Selectable)][1]

\* red and the green of the same score, in this order: red was returned
C23_TieWentToFirst ==
    /\ call = "scored"
    /\ in_colors = << <<<<219, 0, 0>>, 50>>, <<<<0, 219, 0>>, 50>> >>
    /\ vibrant_color = <<219, 0, 0>>

\* C24: when no candidate of a non-empty cluster list clears the saturation
\* >= 0.15 gate (each is skipped as too dark or near-white, or its
\* saturation is below 0.15), get_saturated_color returns the first (most
\* prevalent) colour of the input unmodified.
C24_NothingPigmentedGivesFirst ==
    (call = "scored" /\ in_colors # <<>>
     /\ \A i \in 1..Len(in_colors) : ~Selectable(in_colors[i][1]))
        => vibrant_color = in_colors[1][1]

\* a dark colour ahead of a gray one: neither reaches the gate, and the
\* dark one was returned
C24_DarkFirstReturned ==
    /\ call = "scored"
    /\ in_colors = << <<<<20, 10, 10>>, 90>>, <<<<128, 128, 128>>, 10>> >>
    /\ vibrant_color = <<20, 10, 10>>

\* C28: for every non-empty input list, the colour returned by
\* get_saturated_color is the colour of one of the input pairs; white
\* (255, 255, 255) is returned without being an input colour only when the
\* input list is empty.
C28_ResultIsAnInputColour ==
    call = "scored" =>
        IF in_colors = <<>>
        THEN vibrant_color = <<255, 255, 255>>
        ELSE \E i \in 1..Len(in_colors) : vibrant_color = in_colors[i][1]

\* a list without a candidate to select (black, near-white) was scored,
\* and its first colour came back, not white
C28_BlackReturnedNotWhite ==
    /\ call = "scored"
    /\ in_colors = << <<<<0, 0, 0>>, 90>>, <<<<250, 250, 250>>, 10>> >>
    /\ vibrant_color = <<0, 0, 0>>

\* the first palette entry, in iteration order, at the smallest distance
\* from rgb
NearestEntry(rgb) ==
    LET d(i) == color_distance_hsv(rgb, CURSES_COLORS[i].rgb)
        entries == 1..Len(CURSES_COLORS)
    IN  CHOOSE i \in entries :
            /\ \A j \in entries : QLe(d(i), d(j))
            /\ \A j \in entries : j < i => QLt(d(i), d(j))

\* C25: for every RGB colour, rgb_to_curses_color returns the palette entry
\* with the smallest distance 0.6*circularHueDistance + 0.3*|dS| + 0.1*|dV|,
\* the entry earliest in palette iteration order when several entries share
\* the smallest distance, and white in place of black when black is that
\* entry.
C25_NearestEntryEarliestOnTies ==
    call = "mapped" =>
        curses_color = CursesConstantOf(CURSES_COLORS[NearestEntry(in_rgb)].name)

\* (190, 180, 220) is at the same distance from blue (entry 5) and from
\* white (entry 8), nearer to no other entry, and was mapped to white
C25_TieWentToLaterEntry ==
    /\ call = "mapped"
    /\ in_rgb = <<190, 180, 220>>
    /\ QCmp[color_distance_hsv(in_rgb, CURSES_COLORS[5].rgb),
            color_distance_hsv(in_rgb, CURSES_COLORS[8].rgb)] = 0
    /\ NearestEntry(in_rgb) = 5
    /\ curses_color = "COLOR_WHITE"

\* away from the colours whose tie the doubles break, the nearest entry,
\* earliest on ties, is what the mapper returns
C25_NearestEntryButRoundedTies ==
    (call = "mapped" /\ in_rgb \notin WhiteBelowBlue) =>
        curses_color = CursesConstantOf(CURSES_COLORS[NearestEntry(in_rgb)].name)

\* (190, 165, 220), also tied between blue and white, was mapped to blue
C25_TieWentToEarlierEntry ==
    /\ call = "mapped"
    /\ in_rgb = <<190, 165, 220>>
    /\ QCmp[color_distance_hsv(in_rgb, CURSES_COLORS[5].rgb),
            color_distance_hsv(in_rgb, CURSES_COLORS[8].rgb)] = 0
    /\ curses_color = "COLOR_BLUE"

\* the sum of the percentages of a list of pairs
SumOfPercentages(pairs) ==
    LET upto[i \in 0..Len(pairs)] ==
            IF i = 0 THEN Q(0, 1) ELSE QAdd[upto[i - 1], pairs[i][2]]
    IN  upto[Len(pairs)]

RoutedToDisplay == {"current_info", "current_song", "current_states"}

\* C29: every command name that the websocket dispatcher routes to
\* display_current_info ('current_info', 'current_song', 'current_states')
\* matches a case of display_current_info, so the reply sent for such a
\* command is never the empty string: it is either the requested data or an
\* '[ERROR]' message.
C29_RoutedCommandGetsAReply ==
    call = "replied" =>
        \A i \in 1..Len(returned) :
            returned[i].received \in RoutedToDisplay =>
                /\ returned[i].payload # ""
                /\ returned[i].payload \in
                      IF returned[i].api_ok
                      THEN {"TRACK DATA\nPLAYBACK STATES", "PLAYBACK STATES"}
                      ELSE {"[ERROR] No current song active",
                            "[ERROR] Error getting playback states"}

\* current_song was the first message of a connection, the Spotify calls
\* working, and the reply sent was the empty string
C29_CurrentSongAnsweredEmpty ==
    /\ call = "replied"
    /\ Len(returned) = 1
    /\ returned[1].received = "current_song" /\ returned[1].api_ok
    /\ returned[1].payload = ""

\* current_track, the name the handler has a case for, was answered as an
\* unknown command
C29_CurrentTrackUnknown ==
    /\ call = "replied"
    /\ Len(returned) = 1
    /\ returned[1].received = "current_track" /\ returned[1].api_ok
    /\ returned[1].payload = "[ERROR] Unknown command"

\* message i of the connection was a repeat command that succeeded
RepeatSucceeded(i) == returned[i].received = "repeat" /\ returned[i].api_ok

\* the repeat state message i found
RepeatBefore(i) ==
    IF i = 1 THEN in_command[1].repeat_state ELSE returned[i - 1].repeat

\* C30: successive successful 'repeat' commands cycle the repeat state in
\* the fixed order track -> context -> off -> track: each moves the state
\* one step along that cycle, and from any of the three states three
\* commands visit all three states and return to the starting one.
C30_RepeatCycles ==
    call = "replied" =>
        /\ \A i \in 1..Len(returned) :
              RepeatSucceeded(i) =>
                  << RepeatBefore(i), returned[i].repeat >> \in
                      { << "track", "context" >>, << "context", "off" >>,
                        << "off", "track" >> }
        /\ \A i \in 1..(Len(returned) - 2) :
              (RepeatSucceeded(i) /\ RepeatSucceeded(i + 1)
               /\ RepeatSucceeded(i + 2)) =>
                  /\ { returned[i].repeat, returned[i + 1].repeat,
                       returned[i + 2].repeat }
                         = {"track", "context", "off"}
                  /\ returned[i + 2].repeat = RepeatBefore(i)

\* three repeat commands succeeded on a playback whose repeat state was
\* off: track, context, and off again
C30_ThreeRepeatsFromOff ==
    /\ call = "replied"
    /\ in_command[1].repeat_state = "off"
    /\ Len(returned) = 3
    /\ \A i \in 1..3 : RepeatSucceeded(i)
    /\ returned[1].repeat = "track"
    /\ returned[2].repeat = "context"
    /\ returned[3].repeat = "off"

====
